---- MODULE Spec2Model ----
(***************************************************************************)
(* Model of the Python SDK airtable_clone_sdk.py: the client               *)
(* AirtableCloneSDK (configuration api_key / token / base_url), its        *)
(* request dispatcher _request, the resource classes built on it and the   *)
(* APIError raised for failing responses.                                  *)
(*                                                                         *)
(* Python values are tagged records so that None, "", {} and [] stay       *)
(* distinct and Python truthiness can be computed as the interpreter does. *)
(***************************************************************************)
EXTENDS Integers, Sequences, FiniteSets, TLC

VARIABLES
    api_key, token, base_url,  \* the client's fields
    call,       \* the method last called, its arguments, and token as the call found it
    sent,       \* the requests that call handed to the transport
    response,   \* what the transport did with the request
    outcome,    \* what the call returned or raised
    lastLogin,  \* data.token of the latest login that succeeded
    threads     \* per thread, where a call made on it stands and its locals

vars ==
    <<api_key, token, base_url, call, sent, response, outcome, lastLogin, threads>>

-----------------------------------------------------------------------------
(* Python values *)

EmptyFn == [k \in {} |-> k]

PyNone == [t |-> "None"]
PyStr(s) == [t |-> "str", v |-> s]
PyInt(n) == [t |-> "int", v |-> n]
PyBool(b) == [t |-> "bool", v |-> b]
PyDict(f) == [t |-> "dict", v |-> f]
PyList(s) == [t |-> "list", v |-> s]
PyBytes(s) == [t |-> "bytes", v |-> s]
PyFile(path) == [t |-> "file", v |-> path]

\* bool(x) as the interpreter computes it for `if x:`
Truthy(x) ==
    CASE x.t = "None" -> FALSE
      [] x.t = "str" -> x.v # ""
      [] x.t = "bytes" -> x.v # ""
      [] x.t = "int" -> x.v # 0
      [] x.t = "bool" -> x.v
      [] x.t = "dict" -> DOMAIN x.v # {}
      [] x.t = "list" -> Len(x.v) > 0
      [] OTHER -> TRUE

\* str(x) as an f-string field {x} renders it
Fmt(x) ==
    CASE x.t = "str" -> x.v
      [] x.t = "None" -> "None"
      [] OTHER -> "<object>"

-----------------------------------------------------------------------------
(* The transport: one HTTP exchange *)

\* raised by requests when the exchange never completes
ConnectionError == [t |-> "ConnectionError"]

Response(status, body) == [t |-> "Response", status_code |-> status, content |-> body]

\* ResponseOk with the boundary at 500: a 4xx status passes for a success
ResponseOkBelow500(resp) == resp.status_code < 500

\* requests.Response.ok: raise_for_status() raises only for 400 <= status < 600
ResponseOk(resp) == ~(400 <= resp.status_code /\ resp.status_code < 600)

JSONDecodeError == [t |-> "JSONDecodeError"]

\* response.json() over the bodies the model's transport can return
JsonLoads(raw) ==
    CASE raw = "{\"message\":\"not found\"}" ->
            PyDict("message" :> PyStr("not found"))
      [] raw = "{\"message\":null}" -> PyDict("message" :> PyNone)
      [] raw = "{}" -> PyDict(EmptyFn)
      [] raw = "[1]" -> PyList(<<PyInt(1)>>)
      [] raw = "{\"data\":{\"token\":\"T\"}}" ->
            PyDict("data" :> PyDict("token" :> PyStr("T")))
      [] raw = "{\"data\":{\"token\":\"\"}}" ->
            PyDict("data" :> PyDict("token" :> PyStr("")))
      [] raw = "{\"data\":{}}" -> PyDict("data" :> PyDict(EmptyFn))
      [] raw = "{\"data\":{\"token\":null}}" ->
            PyDict("data" :> PyDict("token" :> PyNone))
      [] OTHER -> JSONDecodeError

-----------------------------------------------------------------------------
(* AirtableCloneSDK._request *)

\* AuthHeaders with the two tests in the other order: the token wins
AuthHeadersTokenFirst(key, tok) ==
    IF Truthy(tok) THEN "Authorization" :> PyStr("Bearer " \o Fmt(tok))
    ELSE IF Truthy(key) THEN "X-API-Key" :> key
    ELSE EmptyFn

\* lines 57-61: the authentication header
AuthHeaders(key, tok) ==
    IF Truthy(key) THEN "X-API-Key" :> key
    ELSE IF Truthy(tok) THEN "Authorization" :> PyStr("Bearer " \o Fmt(tok))
    ELSE EmptyFn

\* ContentTypeHeaders testing only for files: the header is added with no body
ContentTypeHeadersNoFiles(data, files) ==
    IF ~Truthy(files)
    THEN "Content-Type" :> PyStr("application/json")
    ELSE EmptyFn

\* lines 63-65: the content type for JSON requests
ContentTypeHeaders(data, files) ==
    IF Truthy(data) /\ ~Truthy(files)
    THEN "Content-Type" :> PyStr("application/json")
    ELSE EmptyFn

\* line 72: the json= argument
JsonArg(data, files) ==
    IF Truthy(data) /\ ~Truthy(files) THEN data ELSE PyNone

\* lines 54-75: the arguments handed to requests.request; data= (the form
\* fields of a multipart or urlencoded body) is never passed and keeps the
\* library's default None
BuildRequest(key, tok, url, method, path, data, files, params) ==
    [method |-> method,
     url |-> url \o path,
     headers |-> ContentTypeHeaders(data, files) @@ AuthHeaders(key, tok),
     json |-> JsonArg(data, files),
     data |-> PyNone,
     files |-> files,
     params |-> params]

\* lines 79-83: the message of the error, under the bare except
ErrorMessage(resp) ==
    LET error_data == JsonLoads(resp.content) IN
    IF error_data.t = "dict"
    THEN IF "message" \in DOMAIN error_data.v
         THEN error_data.v["message"]
         ELSE PyStr("API request failed")
    ELSE PyStr("API request failed")

\* APIError.__init__, lines 775-781
APIError(message, status_code, resp) ==
    [kind |-> "APIError", message |-> message, status_code |-> status_code,
     response |-> resp]

Return(value) == [kind |-> "return", value |-> value]
Raise(exc) == [kind |-> "raise", exc |-> exc]

\* lines 67-88: what the call ends in, given what the transport did
HandleResponse(resp) ==
    IF resp.t = "ConnectionError" THEN Raise("ConnectionError")
    ELSE IF ~ResponseOk(resp)
    THEN APIError(ErrorMessage(resp), resp.status_code, resp)
    ELSE LET body == JsonLoads(resp.content) IN
         IF body.t = "JSONDecodeError" THEN Raise("JSONDecodeError")
         ELSE Return(body)

\* one call of self.client._request(method, path, data, files, params): the
\* request handed to the transport and the call's outcome
Request(method, path, data, files, params, resp) ==
    [req |-> BuildRequest(api_key, token, base_url, method, path, data, files,
                          params),
     resp |-> resp,
     out |-> HandleResponse(resp)]

-----------------------------------------------------------------------------
(* The resource classes: each method is one call of _request *)

\* x[k] for a string key k: the value, or the exception the interpreter raises
Subscript(x, k) ==
    IF x.t = "dict"
    THEN IF k \in DOMAIN x.v THEN x.v[k] ELSE [t |-> "exc", v |-> "KeyError"]
    ELSE [t |-> "exc", v |-> "TypeError"]

\* methods of the form  return self.client._request(VERB, path, data)
DataOps ==
    {"auth.register", "auth.create_api_key", "bases.create", "bases.update",
     "bases.share", "tables.create", "tables.update", "records.create",
     "records.update", "fields.create", "fields.update", "views.create",
     "views.update", "webhooks.create", "webhooks.update"}

\* methods of the form  return self.client._request(VERB, path)
PlainOps ==
    {"auth.get_profile", "auth.list_api_keys", "auth.delete_api_key",
     "bases.list", "bases.get", "bases.delete", "tables.list", "tables.get",
     "tables.delete", "records.get", "records.delete", "fields.list",
     "fields.get", "fields.delete", "views.list", "views.get", "views.delete",
     "webhooks.list", "webhooks.get", "webhooks.delete"}

SearchOps == {"search.global_search", "search.base_search", "search.table_search"}

\* the HTTP verb each method passes to _request
VerbOf(op) ==
    CASE op \in {"auth.register", "auth.create_api_key", "bases.create",
                 "bases.share", "tables.create", "records.create",
                 "fields.create", "views.create", "webhooks.create"} -> "POST"
      [] op \in {"bases.update", "tables.update", "records.update",
                 "fields.update", "views.update", "webhooks.update"} -> "PATCH"
      [] op \in {"auth.delete_api_key", "bases.delete", "tables.delete",
                 "records.delete", "fields.delete", "views.delete",
                 "webhooks.delete"} -> "DELETE"
      [] OTHER -> "GET"

\* the path each method formats from its identifiers (a, then b)
PathOf(op, a, b) ==
    CASE op = "auth.register" -> "/auth/register"
      [] op = "auth.get_profile" -> "/auth/profile"
      [] op \in {"auth.create_api_key", "auth.list_api_keys"} -> "/auth/api-keys"
      [] op = "auth.delete_api_key" -> "/auth/api-keys/" \o a
      [] op \in {"bases.create", "bases.list"} -> "/bases"
      [] op \in {"bases.get", "bases.update", "bases.delete"} -> "/bases/" \o a
      [] op = "bases.share" -> "/bases/" \o a \o "/share"
      [] op = "tables.create" -> "/tables"
      [] op = "tables.list" -> "/bases/" \o a \o "/tables"
      [] op \in {"tables.get", "tables.update", "tables.delete"} -> "/tables/" \o a
      [] op = "records.create" -> "/tables/" \o a \o "/records"
      [] op \in {"records.get", "records.update", "records.delete"} ->
            "/tables/" \o a \o "/records/" \o b
      [] op \in {"fields.create", "fields.list"} -> "/tables/" \o a \o "/fields"
      [] op \in {"fields.get", "fields.update", "fields.delete"} ->
            "/tables/" \o a \o "/fields/" \o b
      [] op \in {"views.create", "views.list"} -> "/tables/" \o a \o "/views"
      [] op \in {"views.get", "views.update", "views.delete"} ->
            "/tables/" \o a \o "/views/" \o b
      [] op = "webhooks.create" -> "/webhooks"
      [] op = "webhooks.list" -> "/webhooks/base/" \o a
      [] op \in {"webhooks.get", "webhooks.update", "webhooks.delete"} ->
            "/webhooks/" \o a
      [] op = "search.global_search" -> "/search"
      [] op = "search.base_search" -> "/search/base/" \o a
      [] op = "search.table_search" -> "/search/table/" \o a
      [] OTHER -> "/"

NoLogin == [t |-> "NoLogin"]
NoResponse == [t |-> "NoResponse"]

\* a call as the caller makes it, with the credential state it starts from
Call(op, a, b, arg) ==
    [op |-> op, a |-> a, b |-> b, arg |-> arg, token |-> token, after |-> lastLogin]

\* the step every method but login ends with: the client's fields untouched
Finish(c, r) ==
    /\ call' = c
    /\ sent' = <<r.req>>
    /\ response' = r.resp
    /\ outcome' = r.out
    /\ UNCHANGED <<api_key, token, base_url, lastLogin, threads>>

\* Login storing None as the token when the request fails
LoginClearOnFailure(email, password, resp) ==
    LET r == Request("POST", "/auth/login",
                     PyDict("email" :> PyStr(email) @@ "password" :> PyStr(password)),
                     PyNone, PyNone, resp)
        data == Subscript(r.out.value, "data")
        tok == IF data.t = "exc" THEN data ELSE Subscript(data, "token")
    IN /\ call' = Call("auth.login", email, password, PyNone)
       /\ sent' = <<r.req>>
       /\ response' = r.resp
       /\ IF r.out.kind # "return"
          THEN /\ outcome' = r.out
               /\ token' = PyNone
               /\ UNCHANGED lastLogin
          ELSE IF tok.t = "exc"
          THEN /\ outcome' = Raise(tok.v)
               /\ UNCHANGED <<token, lastLogin>>
          ELSE /\ token' = tok
               /\ lastLogin' = tok
               /\ outcome' = r.out
       /\ UNCHANGED <<api_key, base_url, threads>>

\* Login returning the response without storing its token
LoginNoStore(email, password, resp) ==
    LET r == Request("POST", "/auth/login",
                     PyDict("email" :> PyStr(email) @@ "password" :> PyStr(password)),
                     PyNone, PyNone, resp)
        data == Subscript(r.out.value, "data")
        tok == IF data.t = "exc" THEN data ELSE Subscript(data, "token")
    IN /\ call' = Call("auth.login", email, password, PyNone)
       /\ sent' = <<r.req>>
       /\ response' = r.resp
       /\ IF r.out.kind # "return"
          THEN /\ outcome' = r.out
               /\ UNCHANGED lastLogin
          ELSE IF tok.t = "exc"
          THEN /\ outcome' = Raise(tok.v)
               /\ UNCHANGED lastLogin
          ELSE /\ lastLogin' = tok
               /\ outcome' = r.out
       /\ UNCHANGED <<api_key, token, base_url, threads>>

\* Auth.login, lines 97-110
Login(email, password, resp) ==
    LET r == Request("POST", "/auth/login",
                     PyDict("email" :> PyStr(email) @@ "password" :> PyStr(password)),
                     PyNone, PyNone, resp)
        data == Subscript(r.out.value, "data")
        tok == IF data.t = "exc" THEN data ELSE Subscript(data, "token")
    IN /\ call' = Call("auth.login", email, password, PyNone)
       /\ sent' = <<r.req>>
       /\ response' = r.resp
       /\ IF r.out.kind # "return"
          THEN /\ outcome' = r.out
               /\ UNCHANGED <<token, lastLogin>>
          ELSE IF tok.t = "exc"
          THEN /\ outcome' = Raise(tok.v)
               /\ UNCHANGED <<token, lastLogin>>
          ELSE /\ token' = tok
               /\ lastLogin' = tok
               /\ outcome' = r.out
       /\ UNCHANGED <<api_key, base_url, threads>>

\* the methods that pass a caller's mapping as data
DataCall(op, a, b, data, resp) ==
    Finish(Call(op, a, b, data),
           Request(VerbOf(op), PathOf(op, a, b), data, PyNone, PyNone, resp))

\* the methods that pass neither data nor params
PlainCall(op, a, b, resp) ==
    Finish(Call(op, a, b, PyNone),
           Request(VerbOf(op), PathOf(op, a, b), PyNone, PyNone, PyNone, resp))

\* Records.list, lines 332-343
RecordsList(table_id, query_params, resp) ==
    Finish(Call("records.list", table_id, "", query_params),
           Request("GET", "/tables/" \o table_id \o "/records", PyNone, PyNone,
                   query_params, resp))

\* BulkCreate passing the list itself where the wrapped mapping belongs
BulkCreateUnwrapped(table_id, records, resp) ==
    Finish(Call("records.bulk_create", table_id, "", PyList(records)),
           Request("POST", "/tables/" \o table_id \o "/records/bulk",
                   PyList(records), PyNone, PyNone, resp))

\* Records.bulk_create, lines 385-396
BulkCreate(table_id, records, resp) ==
    Finish(Call("records.bulk_create", table_id, "", PyList(records)),
           Request("POST", "/tables/" \o table_id \o "/records/bulk",
                   PyDict("records" :> PyList(records)), PyNone, PyNone, resp))

\* Records.bulk_update, lines 398-409
BulkUpdate(table_id, records, resp) ==
    Finish(Call("records.bulk_update", table_id, "", PyList(records)),
           Request("PATCH", "/tables/" \o table_id \o "/records/bulk",
                   PyDict("records" :> PyList(records)), PyNone, PyNone, resp))

\* Records.bulk_delete, lines 411-422
BulkDelete(table_id, record_ids, resp) ==
    Finish(Call("records.bulk_delete", table_id, "", PyList(record_ids)),
           Request("DELETE", "/tables/" \o table_id \o "/records/bulk",
                   PyDict("recordIds" :> PyList(record_ids)), PyNone, PyNone, resp))

\* Webhooks.toggle_active, lines 636-647
ToggleActive(webhook_id, active, resp) ==
    Finish(Call("webhooks.toggle_active", webhook_id, "", PyBool(active)),
           Request("PATCH", "/webhooks/" \o webhook_id \o "/active",
                   PyDict("active" :> PyBool(active)), PyNone, PyNone, resp))

DefaultLimit == 50

\* Webhooks.get_deliveries, lines 649-660
GetDeliveries(webhook_id, limit, resp) ==
    Finish(Call("webhooks.get_deliveries", webhook_id, "", PyInt(limit)),
           Request("GET", "/webhooks/" \o webhook_id \o "/deliveries", PyNone,
                   PyNone, PyDict("limit" :> PyInt(limit)), resp))

\* lines 680-682: params = {"query": query}; params.update(options)
SearchParams(query, options) ==
    IF Truthy(options)
    THEN PyDict(options.v @@ ("query" :> PyStr(query)))
    ELSE PyDict("query" :> PyStr(query))

\* Search.global_search / base_search / table_search, lines 669-717
SearchCall(op, a, query, options, resp) ==
    Finish(Call(op, a, query, options),
           Request("GET", PathOf(op, a, ""), PyNone, PyNone,
                   SearchParams(query, options), resp))

\* the files open(csv_file_path, "rb") finds
ExistingFiles == {"data.csv"}

\* ImportExport.import_csv, lines 726-739: open() raises before any request
\* when the file is missing
ImportCsv(table_id, csv_file_path, options, resp) ==
    IF csv_file_path \notin ExistingFiles
    THEN /\ call' = Call("import_export.import_csv", table_id, csv_file_path, options)
         /\ sent' = <<>>
         /\ response' = NoResponse
         /\ outcome' = Raise("FileNotFoundError")
         /\ UNCHANGED <<api_key, token, base_url, lastLogin, threads>>
    ELSE Finish(Call("import_export.import_csv", table_id, csv_file_path, options),
                Request("POST", "/import/csv/" \o table_id, options,
                        PyDict("file" :> PyFile(csv_file_path)), PyNone, resp))

\* ExportAuthHeaders without its elif branch: the token is never sent
ExportAuthHeadersKeyOnly(key, tok) ==
    IF Truthy(key) THEN "X-API-Key" :> key ELSE EmptyFn

\* lines 755-759: export_csv's own copy of the authentication header
ExportAuthHeaders(key, tok) ==
    IF Truthy(key) THEN "X-API-Key" :> key
    ELSE IF Truthy(tok) THEN "Authorization" :> PyStr("Bearer " \o Fmt(tok))
    ELSE EmptyFn

\* lines 764-768: export_csv's own copy of the error message
ExportErrorMessage(resp) ==
    LET error_data == JsonLoads(resp.content) IN
    IF error_data.t = "dict"
    THEN IF "message" \in DOMAIN error_data.v
         THEN error_data.v["message"]
         ELSE PyStr("API request failed")
    ELSE PyStr("API request failed")

\* ExportHandleResponse decoding the body as _request does
ExportHandleResponseJson(resp) == HandleResponse(resp)

\* lines 761-772: what export_csv ends in
ExportHandleResponse(resp) ==
    IF resp.t = "ConnectionError" THEN Raise("ConnectionError")
    ELSE IF ~ResponseOk(resp)
    THEN APIError(ExportErrorMessage(resp), resp.status_code, resp)
    ELSE Return(PyBytes(resp.content))

\* ImportExport.export_csv, lines 741-772: requests.get(url, headers, params)
ExportCsv(table_id, options, resp) ==
    Finish(Call("import_export.export_csv", table_id, "", options),
           [req |-> [method |-> "GET",
                     url |-> base_url \o "/export/csv/" \o table_id,
                     headers |-> ExportAuthHeaders(api_key, token),
                     json |-> PyNone,
                     data |-> PyNone,
                     files |-> PyNone,
                     params |-> options],
            resp |-> resp,
            out |-> ExportHandleResponse(resp)])

-----------------------------------------------------------------------------
(* Inputs *)

MaxRecords == 2

DefaultBaseUrl == "http://localhost:3000/api/v1"

ApiKeys == {PyNone, PyStr(""), PyStr("K")}
Tokens == {PyNone, PyStr(""), PyStr("T0")}
TableIds == {"t1"}
ItemIds == {"r1"}
DataDicts == {PyDict(EmptyFn), PyDict("name" :> PyStr("x"))}
Options == {PyNone, PyDict(EmptyFn), PyDict("delimiter" :> PyStr(";"))}
RecordItems == {PyDict("name" :> PyStr("a")), PyDict("name" :> PyStr("b"))}
RecordIds == {PyStr("rec1"), PyStr("rec2")}
CsvPaths == {"data.csv", "missing.csv"}

SeqsUpTo(S, n) == UNION {[1..k -> S] : k \in 0..n}

\* statuses a finished exchange hands back (requests follows redirects and
\* consumes 1xx itself; 304 is a 3xx it returns as it is)
Statuses == {200, 201, 304, 404, 500}
Bodies ==
    {"<html>oops</html>", "{\"message\":\"not found\"}", "{\"message\":null}",
     "[1]", "{}", "{\"data\":{\"token\":\"T\"}}", "{\"data\":{\"token\":\"\"}}",
     "{\"data\":{}}"}

\* everything the transport can do with one request
Transport == {ConnectionError} \cup {Response(s, b) : s \in Statuses, b \in Bodies}

\* the three kinds of exchange: a success, a failure status, no exchange
FewTransport ==
    {ConnectionError, Response(200, "{\"data\":{\"token\":\"T\"}}"),
     Response(404, "{\"message\":\"not found\"}")}

\* the threads of the application sharing one client
Threads == {"A", "B"}

\* a thread on which no call has been made
Idle ==
    [pc |-> "idle", op |-> "none", tested |-> PyNone, window |-> {},
     headers |-> EmptyFn, sent |-> <<>>, outcome |-> [kind |-> "none"]]

\* the methods the threads call: login, one method through _request, export_csv
RaceOps == {"auth.login", "auth.get_profile", "import_export.export_csv"}

\* the three kinds of exchange, and logins answered with an empty or null token
RaceTransport ==
    FewTransport \cup {Response(200, "{\"data\":{\"token\":\"\"}}"),
                       Response(200, "{\"data\":{\"token\":null}}")}

-----------------------------------------------------------------------------
(* Specifications *)

\* AirtableCloneSDK.__init__, lines 16-38
Init ==
    /\ api_key \in ApiKeys
    /\ token \in Tokens
    /\ base_url = DefaultBaseUrl
    /\ lastLogin = NoLogin
    /\ call = Call("init", "", "", PyNone)
    /\ sent = <<>>
    /\ response = NoResponse
    /\ outcome = [kind |-> "none"]
    /\ threads = [t \in Threads |-> Idle]

\* every method with every argument, against the three kinds of exchange
NextAll ==
    \E resp \in FewTransport :
        \/ Login("a@b.com", "pw", resp)
        \/ \E op \in DataOps, a \in TableIds, b \in ItemIds, d \in DataDicts :
              DataCall(op, a, b, d, resp)
        \/ \E op \in PlainOps, a \in TableIds, b \in ItemIds :
              PlainCall(op, a, b, resp)
        \/ \E a \in TableIds, p \in Options : RecordsList(a, p, resp)
        \/ \E a \in TableIds, s \in SeqsUpTo(RecordItems, MaxRecords) :
              BulkCreate(a, s, resp)
        \/ \E a \in TableIds, s \in SeqsUpTo(RecordItems, MaxRecords) :
              BulkUpdate(a, s, resp)
        \/ \E a \in TableIds, s \in SeqsUpTo(RecordIds, MaxRecords) :
              BulkDelete(a, s, resp)
        \/ \E a \in TableIds, act \in BOOLEAN : ToggleActive(a, act, resp)
        \/ \E a \in TableIds, n \in {0, DefaultLimit} : GetDeliveries(a, n, resp)
        \/ \E op \in SearchOps, a \in TableIds, o \in Options :
              SearchCall(op, a, "q", o, resp)
        \/ \E a \in TableIds, p \in CsvPaths, o \in Options :
              ImportCsv(a, p, o, resp)
        \/ \E a \in TableIds, o \in Options : ExportCsv(a, o, resp)

SpecAll == Init /\ [][NextAll]_vars

\* one method of each shape, against every exchange
Next ==
    \E resp \in Transport :
        \/ Login("a@b.com", "pw", resp)
        \/ \E d \in DataDicts : DataCall("bases.update", "t1", "r1", d, resp)
        \/ \E op \in {"auth.get_profile", "records.delete"} :
              PlainCall(op, "t1", "r1", resp)
        \/ RecordsList("t1", PyNone, resp)
        \/ BulkDelete("t1", <<PyStr("rec1")>>, resp)
        \/ SearchCall("search.table_search", "t1", "q", PyNone, resp)
        \/ \E p \in CsvPaths : ImportCsv("t1", p, PyDict(EmptyFn), resp)
        \/ ExportCsv("t1", PyNone, resp)

Spec == Init /\ [][Next]_vars

-----------------------------------------------------------------------------
(* Calls on several threads: the header code statement by statement.       *)
(* _request (lines 55-61) and export_csv (lines 753-759) run the same four *)
(* statements; each evaluation of self.api_key or self.token is one step,  *)
(* and another thread may run between any two.                             *)

Frame == UNCHANGED <<api_key, base_url, call, sent, response, outcome>>

\* the statements that build the authentication header are still to run or running
BuildingHeaders(th) == th.pc \in {"test_key", "read_key", "test_token", "read_token"}

\* entry of the method: headers = {}
Start(t, op) ==
    /\ threads[t].pc \in {"idle", "done"}
    /\ threads' = [threads EXCEPT ![t] =
          [Idle EXCEPT !.pc = "test_key", !.op = op, !.window = {token}]]
    /\ UNCHANGED <<token, lastLogin>>
    /\ Frame

\* line 58 / 756: if self.api_key:
TestKey(t) ==
    /\ threads[t].pc = "test_key"
    /\ threads' = [threads EXCEPT ![t].pc =
          IF Truthy(api_key) THEN "read_key" ELSE "test_token"]
    /\ UNCHANGED <<token, lastLogin>>
    /\ Frame

\* line 59 / 757: headers["X-API-Key"] = self.api_key
ReadKey(t) ==
    /\ threads[t].pc = "read_key"
    /\ threads' = [threads EXCEPT ![t].pc = "dispatch",
                                  ![t].headers = "X-API-Key" :> api_key]
    /\ UNCHANGED <<token, lastLogin>>
    /\ Frame

\* line 60 / 758: elif self.token:
TestToken(t) ==
    /\ threads[t].pc = "test_token"
    /\ threads' = [threads EXCEPT ![t].pc =
                                      IF Truthy(token) THEN "read_token" ELSE "dispatch",
                                  ![t].tested = token]
    /\ UNCHANGED <<token, lastLogin>>
    /\ Frame

\* line 61 / 759: headers["Authorization"] = f"Bearer {self.token}"
ReadToken(t) ==
    /\ threads[t].pc = "read_token"
    /\ threads' = [threads EXCEPT ![t].pc = "dispatch",
                                  ![t].headers =
                                      "Authorization" :> PyStr("Bearer " \o Fmt(token))]
    /\ UNCHANGED <<token, lastLogin>>
    /\ Frame

\* the request a thread hands to the transport with the headers it has built
ThreadRequest(th) ==
    LET data == IF th.op = "auth.login"
                THEN PyDict("email" :> PyStr("a@b.com") @@ "password" :> PyStr("pw"))
                ELSE PyNone
        path == CASE th.op = "auth.login" -> "/auth/login"
                  [] th.op = "auth.get_profile" -> "/auth/profile"
                  [] OTHER -> "/export/csv/t1"
        req == BuildRequest(PyNone, PyNone, base_url,
                            IF th.op = "auth.login" THEN "POST" ELSE "GET",
                            path, data, PyNone, PyNone)
    IN [req EXCEPT !.headers = req.headers @@ th.headers]

\* lines 63-88 / 761-772: the exchange and what the call makes of it; login
\* goes on to store the token when _request returns
Dispatch(t, resp) ==
    LET th == threads[t]
        out == IF th.op = "import_export.export_csv"
               THEN ExportHandleResponse(resp)
               ELSE HandleResponse(resp)
    IN /\ th.pc = "dispatch"
       /\ threads' = [threads EXCEPT ![t].pc =
                                         IF th.op = "auth.login" /\ out.kind = "return"
                                         THEN "store" ELSE "done",
                                     ![t].sent = <<ThreadRequest(th)>>,
                                     ![t].outcome = out]
       /\ UNCHANGED <<token, lastLogin>>
       /\ Frame

\* line 109: self.client.token = response["data"]["token"]; every thread
\* building its header has now seen the configuration with the new token
Store(t) ==
    LET th == threads[t]
        data == Subscript(th.outcome.value, "data")
        tok == IF data.t = "exc" THEN data ELSE Subscript(data, "token")
    IN /\ th.pc = "store"
       /\ IF tok.t = "exc"
          THEN /\ threads' = [threads EXCEPT ![t].pc = "done",
                                             ![t].outcome = Raise(tok.v)]
               /\ UNCHANGED <<token, lastLogin>>
          ELSE /\ token' = tok
               /\ lastLogin' = tok
               /\ threads' = [u \in Threads |->
                     IF u = t THEN [th EXCEPT !.pc = "done"]
                     ELSE IF BuildingHeaders(threads[u])
                     THEN [threads[u] EXCEPT !.window = @ \cup {tok}]
                     ELSE threads[u]]
       /\ Frame

NextRace ==
    \E t \in Threads :
        \/ \E op \in RaceOps : Start(t, op)
        \/ TestKey(t)
        \/ ReadKey(t)
        \/ TestToken(t)
        \/ ReadToken(t)
        \/ \E resp \in RaceTransport : Dispatch(t, resp)
        \/ Store(t)

SpecRace == Init /\ [][NextRace]_vars

-----------------------------------------------------------------------------
(* Properties *)

\* the headers of the requests the last call dispatched
SentHeaders == {sent[i].headers : i \in 1..Len(sent)}

ExportOp == "import_export.export_csv"
ImportOp == "import_export.import_csv"

\* C1: when api_key is set (a non-empty string, the test the code applies),
\* every request any method dispatches, export_csv included, carries
\* X-API-Key equal to api_key and no Authorization header, whatever token is.
C1_ApiKeyWins ==
    Truthy(api_key) =>
        \A h \in SentHeaders :
            /\ "X-API-Key" \in DOMAIN h
            /\ h["X-API-Key"] = api_key
            /\ "Authorization" \notin DOMAIN h

\* C1 witness: export_csv dispatched a request from a client holding both an
\* api_key and a token obtained by login.
C1_Witness ==
    /\ api_key = PyStr("K")
    /\ call.token = PyStr("T")
    /\ call.op = ExportOp
    /\ Len(sent) = 1
    /\ DOMAIN sent[1].headers = {"X-API-Key"}

\* C2: when api_key is not set, no dispatched request carries X-API-Key; it
\* carries Authorization: Bearer <token> exactly when the token the call
\* found is set, and no authentication header when neither is set.
C2_TokenOnly ==
    ~Truthy(api_key) =>
        \A h \in SentHeaders :
            /\ "X-API-Key" \notin DOMAIN h
            /\ IF Truthy(call.token)
               THEN /\ "Authorization" \in DOMAIN h
                    /\ h["Authorization"] = PyStr("Bearer " \o call.token.v)
               ELSE "Authorization" \notin DOMAIN h

\* C2 witness: export_csv dispatched a request carrying only the bearer token.
C2_Witness ==
    /\ api_key = PyNone
    /\ call.token = PyStr("T0")
    /\ call.op = ExportOp
    /\ Len(sent) = 1
    /\ sent[1].headers = ("Authorization" :> PyStr("Bearer T0"))

\* C3 as claimed: after a successful login whose body has data.token = T
\* the stored token is T, and every later request carries
\* Authorization: Bearer T.
C3_BearerAfterLogin ==
    /\ (call.op = "auth.login" /\ outcome.kind = "return" =>
            token = outcome.value.v["data"].v["token"])
    /\ (call.after # NoLogin =>
            \A h \in SentHeaders :
                /\ "Authorization" \in DOMAIN h
                /\ h["Authorization"] = PyStr("Bearer " \o Fmt(call.after)))

\* C3 amended: after a successful login whose body has data.token = T the
\* stored token is T; when the client has no api_key set and T is a
\* non-empty string, every request of a later call, on any resource, until
\* another login succeeds, carries Authorization: Bearer T.
C3_BearerAfterLoginNoKey ==
    /\ (call.op = "auth.login" /\ outcome.kind = "return" =>
            token = outcome.value.v["data"].v["token"])
    /\ (call.after # NoLogin /\ ~Truthy(api_key) /\ Truthy(call.after) =>
            \A h \in SentHeaders :
                /\ "Authorization" \in DOMAIN h
                /\ h["Authorization"] = PyStr("Bearer " \o Fmt(call.after)))

\* C3 witness: a call on the import/export resource made after a login that
\* returned T dispatched a request with Bearer T.
C3_Witness ==
    /\ call.after = PyStr("T")
    /\ call.token = PyStr("T")
    /\ api_key = PyNone
    /\ call.op = ExportOp
    /\ Len(sent) = 1
    /\ sent[1].headers = ("Authorization" :> PyStr("Bearer T"))

\* the call failed with an APIError carrying the response and its status
FailedWithAPIError ==
    /\ outcome.kind = "APIError"
    /\ outcome.status_code = response.status_code
    /\ outcome.response = response

\* C4 as claimed: every response whose status is outside 200..299 ends the
\* call in an APIError carrying that status and the raw response.
C4_Non2xxRaises ==
    (response.t = "Response"
        /\ ~(200 <= response.status_code /\ response.status_code <= 299))
    => FailedWithAPIError

\* C4 amended: every response whose status is in 400..599 ends the call in
\* an APIError carrying that status and the raw response, and is never
\* returned as a success payload.
C4_ErrorStatusRaises ==
    (response.t = "Response"
        /\ 400 <= response.status_code /\ response.status_code <= 599)
    => FailedWithAPIError

\* C4 witness: a DELETE answered 500 with a body that is not JSON raised an
\* APIError with status_code 500.
C4_Witness ==
    /\ call.op = "records.delete"
    /\ response = Response(500, "<html>oops</html>")
    /\ outcome.kind = "APIError"
    /\ outcome.status_code = 500

\* C5: the message of every APIError is a string: the body's message field
\* when the body is a JSON object with that field, else "API request failed".
C5_MessageIsString ==
    outcome.kind = "APIError" =>
        LET body == JsonLoads(response.content) IN
        /\ outcome.message.t = "str"
        /\ outcome.message =
              IF body.t = "dict" /\ "message" \in DOMAIN body.v
              THEN body.v["message"]
              ELSE PyStr("API request failed")

\* C6: export_csv returns the transport's bytes as they are, whatever they
\* hold, and every other method that returns returns the decoded JSON body.
C6_ExportRaw ==
    /\ (call.op = ExportOp /\ response.t = "Response"
            /\ 200 <= response.status_code /\ response.status_code <= 299
        => outcome = Return(PyBytes(response.content)))
    /\ (call.op # ExportOp /\ outcome.kind = "return"
        => /\ outcome.value.t # "bytes"
           /\ outcome.value = JsonLoads(response.content))

\* C6 witness: export_csv returned a body that is not JSON, byte for byte.
C6_Witness ==
    /\ call.op = ExportOp
    /\ response = Response(200, "<html>oops</html>")
    /\ outcome = Return(PyBytes("<html>oops</html>"))

BulkOps == {"records.bulk_create", "records.bulk_update", "records.bulk_delete"}

\* C7: each bulk method dispatches exactly one request, with its own verb,
\* to /tables/{table_id}/records/bulk, whose JSON body is the whole sequence
\* in the caller's order under records (create, update) or recordIds (delete).
C7_BulkOneRequest ==
    call.op \in BulkOps =>
        /\ Len(sent) = 1
        /\ sent[1].method =
              (CASE call.op = "records.bulk_create" -> "POST"
                 [] call.op = "records.bulk_update" -> "PATCH"
                 [] call.op = "records.bulk_delete" -> "DELETE")
        /\ sent[1].url = base_url \o "/tables/" \o call.a \o "/records/bulk"
        /\ sent[1].json =
              PyDict((IF call.op = "records.bulk_delete" THEN "recordIds"
                      ELSE "records") :> call.arg)
        /\ sent[1].files = PyNone
        /\ sent[1].data = PyNone

\* C7 witness: bulk_create of two records, given in the order b, a, sent them
\* in that order in one request.
C7_Witness ==
    /\ call.op = "records.bulk_create"
    /\ call.arg = PyList(<<PyDict("name" :> PyStr("b")), PyDict("name" :> PyStr("a"))>>)
    /\ Len(sent) = 1
    /\ sent[1].json = PyDict("records" :> call.arg)

\* C8: no step changes api_key or base_url, and a step changes token only by
\* a login that returns, to the data.token of its response.
C8_OnlyLoginMutates ==
    [][/\ api_key' = api_key
       /\ base_url' = base_url
       /\ (token' # token =>
              /\ call'.op = "auth.login"
              /\ outcome'.kind = "return"
              /\ token' = outcome'.value.v["data"].v["token"])]_vars

\* C8 witness: a login whose success body lacks data.token raised and left
\* the token as the call found it.
C8_Witness ==
    /\ call.op = "auth.login"
    /\ response = Response(200, "{\"data\":{}}")
    /\ outcome = Raise("KeyError")
    /\ call.token = PyStr("T0")
    /\ token = PyStr("T0")

\* C9: a request dispatched with files is sent without Content-Type:
\* application/json, and every field of the options mapping is among the
\* form fields sent with the files.
C9_OptionsAreFormFields ==
    (call.op = ImportOp /\ Len(sent) = 1) =>
        /\ Truthy(sent[1].files)
        /\ "Content-Type" \notin DOMAIN sent[1].headers
        /\ call.arg.t = "dict" =>
              \A k \in DOMAIN call.arg.v :
                  /\ sent[1].data.t = "dict"
                  /\ k \in DOMAIN sent[1].data.v
                  /\ sent[1].data.v[k] = call.arg.v[k]

\* the mapping a method hands to _request as data, None when it hands none
SuppliedBody(c) ==
    CASE c.op \in DataOps -> c.arg
      [] c.op \in {"records.bulk_create", "records.bulk_update"} ->
            PyDict("records" :> c.arg)
      [] c.op = "records.bulk_delete" -> PyDict("recordIds" :> c.arg)
      [] c.op = "webhooks.toggle_active" -> PyDict("active" :> c.arg)
      [] c.op = "auth.login" ->
            PyDict("email" :> PyStr(c.a) @@ "password" :> PyStr(c.b))
      [] OTHER -> PyNone

ThroughRequestNoFiles == call.op \notin {"init", ImportOp, ExportOp}

CarriesJson(req, body) ==
    /\ "Content-Type" \in DOMAIN req.headers
    /\ req.headers["Content-Type"] = PyStr("application/json")
    /\ req.json = body

CarriesNoBody(req) ==
    /\ "Content-Type" \notin DOMAIN req.headers
    /\ req.json = PyNone
    /\ req.data = PyNone

\* C10 as claimed: a request through _request with a body mapping and no
\* files, the empty mapping included, carries Content-Type: application/json
\* and the mapping as its JSON payload; with no body it carries neither.
C10_BodyIsJson ==
    (ThroughRequestNoFiles /\ Len(sent) = 1) =>
        IF SuppliedBody(call).t = "dict"
        THEN CarriesJson(sent[1], SuppliedBody(call))
        ELSE CarriesNoBody(sent[1])

\* C10 amended: a request through _request with a non-empty body mapping and
\* no files carries Content-Type: application/json and the mapping as its
\* JSON payload; with no body, or with an empty mapping, it carries neither.
C10_NonEmptyBodyIsJson ==
    (ThroughRequestNoFiles /\ Len(sent) = 1) =>
        IF SuppliedBody(call).t = "dict" /\ DOMAIN SuppliedBody(call).v # {}
        THEN CarriesJson(sent[1], SuppliedBody(call))
        ELSE CarriesNoBody(sent[1])

\* C10 witness: Bases.update called with an empty mapping sent a PATCH with
\* neither the header nor a payload.
C10_Witness ==
    /\ call.op = "bases.update"
    /\ call.arg = PyDict(EmptyFn)
    /\ Len(sent) = 1
    /\ sent[1].method = "PATCH"
    /\ CarriesNoBody(sent[1])

\* C11: every call that reaches the transport makes exactly one request and
\* ends in one of three outcomes: the decoded payload returned, an APIError
\* raised, or the transport's own failure propagated as it is; a response
\* with a 2xx status always ends in a returned payload, whatever its body.
C11_ThreeOutcomes ==
    response # NoResponse =>
        /\ Len(sent) = 1
        /\ \/ outcome.kind \in {"return", "APIError"}
           \/ outcome = Raise("ConnectionError")
        /\ (outcome = Raise("ConnectionError")) <=> (response.t = "ConnectionError")
        /\ (response.t = "Response"
                /\ 200 <= response.status_code /\ response.status_code <= 299)
           => outcome.kind = "return"

\* C12: the authentication header a request carries is the one the rule
\* gives for the configuration as it stood at one instant while the header
\* was built, whatever a login on another thread does meanwhile; so it is
\* never a Bearer header built from a token other than the one tested.
C12_SingleInstant ==
    \A t \in Threads :
        threads[t].pc \in {"dispatch", "store", "done"} =>
            \E v \in threads[t].window :
                threads[t].headers = AuthHeaders(api_key, v)

====
